---- MODULE Spec2Model ----
(***************************************************************************)
(* Hackathon catalog UI: the listing page (HackathonsPage) with its        *)
(* client-side filter/sort pipeline and save/unsave handlers, and the      *)
(* detail page (HackathonDetailPage) with its save toggle, and the         *)
(* countdown that the cards and the detail page show.                      *)
(*                                                                         *)
(* Text is modelled as a sequence of one-character strings so that         *)
(* toLowerCase and includes are computed, not assumed.  An optional value  *)
(* (T | null) is modelled as a set: {} for null, {v} for the value v.      *)
(* A JavaScript value that is used for its truthiness is one of            *)
(* "true", "false", "undefined"; "TypeError" stands for a thrown           *)
(* exception.                                                              *)
(***************************************************************************)
EXTENDS Integers, Sequences, FiniteSets, Bags, TLC

VARIABLES
    hackathons,          \* HackathonsPage: useState<Hackathon[]>
    filters,             \* HackathonsPage: useState<HackathonFilters>
    filteredHackathons,  \* HackathonsPage: the useMemo result
    resultIsNew,         \* the useMemo result is an array other than `hackathons`
    renderError,         \* the useMemo callback threw during render
    fetched,             \* the array the backend's answer delivered to setHackathons
    page,                \* which page component is mounted
    user,                \* useAuth().user
    loading,             \* useState(true) of the mounted page
    savedIds,            \* HackathonsPage: useState<Set<string>>
    isSaved,             \* HackathonDetailPage: useState(false)
    hackathon,           \* HackathonDetailPage: useState<Hackathon | null>
    dbSaved,             \* backend table saved_hackathons: rows <<user_id, hackathon_id>>
    inflight,            \* bag of requests awaited by the page's async handlers
    toast,               \* title of the toast raised by the latest step, or NoToast
    clock,               \* the wall clock (new Date()), in ms
    routeId,             \* HackathonDetailPage: useParams().id
    displayed,           \* the countdown consumers (cards, detail page) on display
    timers,              \* the consumers whose 1-second tick is scheduled
    timeLeft,            \* per consumer: the TimeRemaining its useCountdown holds
    computed,            \* the consumers whose countdown the latest step recomputed
    cards,               \* the props of the HackathonCard instances a parent renders
    clicked,             \* the index of the card whose save button the latest step clicked, or 0
    calls                \* the handler invocations made by that click

vars == <<hackathons, filters, filteredHackathons, resultIsNew, renderError, fetched,
          page, user, loading, savedIds, isSaved, hackathon, dbSaved,
          inflight, toast, clock, routeId, displayed, timers, timeLeft, computed,
          cards, clicked, calls>>

pipelineVars == <<hackathons, filters, filteredHackathons, resultIsNew, renderError>>
pageVars == <<page, user, loading, savedIds, isSaved, hackathon, dbSaved, inflight, toast>>
countdownVars == <<displayed, timers, timeLeft, computed>>
cardVars == <<cards, clicked, calls>>

----------------------------------------------------------------------------
(* Bounds *)

\* longest record list given to the pipeline
MaxLen == 3

----------------------------------------------------------------------------
(* Optional values and JavaScript truthiness *)

Null == {}
Some(v) == {v}
Get(opt) == CHOOSE v \in opt : TRUE

JsBool(b) == IF b THEN "true" ELSE "false"

NoValue == "null"

----------------------------------------------------------------------------
(* Text *)

\* String.prototype.toLowerCase on one character of the model's alphabet
LowerChar(c) ==
    CASE c = "A" -> "a"
      [] c = "D" -> "d"
      [] c = "G" -> "g"
      [] c = "I" -> "i"
      [] c = "M" -> "m"
      [] c = "P" -> "p"
      [] c = "R" -> "r"
      [] c = "W" -> "w"
      [] OTHER -> c

ToLowerCase(s) == [i \in 1..Len(s) |-> LowerChar(s[i])]

\* String.prototype.includes: t is a contiguous substring of s
Includes(s, t) ==
    \E i \in 0..(Len(s) - Len(t)) : SubSeq(s, i + 1, i + Len(t)) = t

\* Array.prototype.includes on an array of tags: strict equality
ArrayIncludes(arr, x) == \E i \in 1..Len(arr) : arr[i] = x

\* new Date(iso).getTime(): milliseconds of a timestamp the backend returned.
\* A timestamp is written [day, hour]; two rows may carry the same instant.
GetTime(iso) == (iso.day * 24 + iso.hour) * 3600000

----------------------------------------------------------------------------
(* The hackathons table of the backend *)

Ts(d, h) == [day |-> d, hour |-> h]

HackathonRows ==
    { [id |-> "h1", title |-> <<"A", "I">>, description |-> Some(<<"w", "e", "b">>),
       source |-> "mlh", mode |-> "online", skills |-> Some(<< <<"P", "y">> >>),
       registration_deadline |-> Ts(1, 0), created_at |-> Ts(0, 3), is_active |-> TRUE],
      [id |-> "h2", title |-> <<"W", "e", "b">>, description |-> Null,
       source |-> "devpost", mode |-> "offline", skills |-> Null,
       registration_deadline |-> Ts(1, 0), created_at |-> Ts(0, 1), is_active |-> TRUE],
      [id |-> "h3", title |-> <<"G", "o">>, description |-> Some(<<"A", "i">>),
       source |-> "mlh", mode |-> "hybrid", skills |-> Some(<< <<"R", "s">>, <<"p", "y">> >>),
       registration_deadline |-> Ts(0, 5), created_at |-> Ts(0, 3), is_active |-> TRUE],
      [id |-> "h4", title |-> <<"D", "b">>, description |-> Some(<<"s", "q", "l">>),
       source |-> "devpost", mode |-> "offline", skills |-> Some(<< <<"A", "i">> >>),
       registration_deadline |-> Ts(4, 0), created_at |-> Ts(0, 0), is_active |-> FALSE],
      [id |-> "h5", title |-> <<"M", "l">>, description |-> Null,
       source |-> "community", mode |-> "online", skills |-> Some(<< <<"P", "y">>, <<"R", "s">> >>),
       registration_deadline |-> Ts(0, 5), created_at |-> Ts(0, 1), is_active |-> TRUE] }

Ids == {h.id : h \in HackathonRows}

\* record lists without repeated rows (id is the table's key), up to MaxLen long
RecordLists ==
    UNION { { s \in [1..n -> HackathonRows] : \A i, j \in 1..n : i # j => s[i] # s[j] }
            : n \in 0..MaxLen }

----------------------------------------------------------------------------
(* Filter specifications *)

SearchTexts == { <<>>, <<"a", "i">>, <<"A", "I">>, <<"z">> }
SourceChoices == { NoValue, "mlh", "devpost" }
ModeChoices == { NoValue }
SkillChoices == { <<>>, << <<"P", "y">> >>, << <<"R", "s">>, <<"P", "y">> >> }
SortKeys == { "deadline", "newest", "relevance" }

FilterSpecs ==
    [search : SearchTexts, source : SourceChoices, mode : ModeChoices,
     skills : SkillChoices, onlineOnly : BOOLEAN, sortBy : SortKeys]

DefaultFilters ==
    [search |-> <<>>, source |-> NoValue, mode |-> NoValue, skills |-> <<>>,
     onlineOnly |-> FALSE, sortBy |-> "deadline"]

----------------------------------------------------------------------------
(* The filter/sort pipeline (the useMemo callback of HackathonsPage).      *)
(* The working array `result` is [items, alias, threw]: its elements,      *)
(* whether it is the very array held in `hackathons`, and whether an       *)
(* exception has been thrown.                                              *)

\* let result = hackathons  (no copy)
AliasArray(hs) == [items |-> hs, alias |-> TRUE, threw |-> FALSE]

\* let result = [...hackathons]
SpreadCopy(hs) == [items |-> hs, alias |-> FALSE, threw |-> FALSE]

\* h.description.toLowerCase().includes(search)  (no optional chaining)
DescriptionIncludesStrict(h, search) ==
    IF h.description = Null THEN "TypeError"
    ELSE JsBool(Includes(ToLowerCase(Get(h.description)), search))

\* h.description?.toLowerCase().includes(search)
DescriptionIncludes(h, search) ==
    IF h.description = Null THEN "undefined"
    ELSE JsBool(Includes(ToLowerCase(Get(h.description)), search))

\* h.skills?.some((s) => s.toLowerCase().includes(search))
SkillsSomeIncludes(h, search) ==
    IF h.skills = Null THEN "undefined"
    ELSE LET sk == Get(h.skills)
         IN  JsBool(\E i \in 1..Len(sk) : Includes(ToLowerCase(sk[i]), search))

\* title matched against the raw title (toLowerCase forgotten)
SearchPredicateCaseSensitive(h, search) ==
    IF Includes(h.title, search) THEN "true"
    ELSE LET d == DescriptionIncludes(h, search)
         IN  IF d = "true" THEN "true" ELSE SkillsSomeIncludes(h, search)

\* the search stage's callback: a || b || c, evaluated left to right
SearchPredicate(h, search) ==
    IF Includes(ToLowerCase(h.title), search) THEN "true"
    ELSE LET d == DescriptionIncludes(h, search)
         IN  IF d = "true" THEN "true"
             ELSE IF d = "TypeError" THEN "TypeError"
             ELSE SkillsSomeIncludes(h, search)

\* h.skills?.includes(skill)
SkillsIncludes(h, skill) ==
    IF h.skills = Null THEN "undefined"
    ELSE JsBool(ArrayIncludes(Get(h.skills), skill))

\* filters.skills.every((skill) => h.skills?.includes(skill))
SkillsPredicateAll(h, required) ==
    JsBool(\A k \in 1..Len(required) : SkillsIncludes(h, required[k]) = "true")

\* filters.skills.some((skill) => h.skills?.includes(skill))
SkillsPredicate(h, required) ==
    JsBool(\E k \in 1..Len(required) : SkillsIncludes(h, required[k]) = "true")

\* result = result.filter(...) for the search text
SearchStage(res, f) ==
    IF res.threw \/ f.search = <<>> THEN res
    ELSE LET search == ToLowerCase(f.search)
         IN  IF \E i \in 1..Len(res.items) : SearchPredicate(res.items[i], search) = "TypeError"
             THEN [res EXCEPT !.threw = TRUE]
             ELSE [items |-> SelectSeq(res.items, LAMBDA h : SearchPredicate(h, search) = "true"),
                   alias |-> FALSE, threw |-> FALSE]

\* result = result.find(...) wrapped in an array: only the first match is kept
SourceStageFirstOnly(res, f) ==
    IF res.threw \/ f.source = NoValue THEN res
    ELSE LET kept == SelectSeq(res.items, LAMBDA h : h.source = f.source)
         IN  [items |-> IF kept = <<>> THEN <<>> ELSE <<Head(kept)>>,
              alias |-> FALSE, threw |-> FALSE]

\* the comparison inverted: records of the selected source are the ones dropped
SourceStageExcluding(res, f) ==
    IF res.threw \/ f.source = NoValue THEN res
    ELSE [items |-> SelectSeq(res.items, LAMBDA h : h.source # f.source),
          alias |-> FALSE, threw |-> FALSE]

\* result = result.filter((h) => h.source === filters.source)
SourceStage(res, f) ==
    IF res.threw \/ f.source = NoValue THEN res
    ELSE [items |-> SelectSeq(res.items, LAMBDA h : h.source = f.source),
          alias |-> FALSE, threw |-> FALSE]

\* only h.mode === 'online' is tested: hybrid records are dropped too
OnlineOnlyStageStrict(res, f) ==
    IF res.threw \/ ~f.onlineOnly THEN res
    ELSE [items |-> SelectSeq(res.items, LAMBDA h : h.mode = "online"),
          alias |-> FALSE, threw |-> FALSE]

\* result = result.filter((h) => h.mode === 'online' || h.mode === 'hybrid')
OnlineOnlyStage(res, f) ==
    IF res.threw \/ ~f.onlineOnly THEN res
    ELSE [items |-> SelectSeq(res.items, LAMBDA h : h.mode = "online" \/ h.mode = "hybrid"),
          alias |-> FALSE, threw |-> FALSE]

\* result = result.filter(...) for the required skills
SkillsStage(res, f) ==
    IF res.threw \/ Len(f.skills) = 0 THEN res
    ELSE [items |-> SelectSeq(res.items, LAMBDA h : SkillsPredicate(h, f.skills) = "true"),
          alias |-> FALSE, threw |-> FALSE]

\* comparator with the operands of both subtractions swapped
CompareSwapped(sortBy, a, b) ==
    IF sortBy = "deadline"
    THEN GetTime(b.registration_deadline) - GetTime(a.registration_deadline)
    ELSE GetTime(a.created_at) - GetTime(b.created_at)

\* the comparator handed to Array.prototype.sort
Compare(sortBy, a, b) ==
    IF sortBy = "deadline"
    THEN GetTime(a.registration_deadline) - GetTime(b.registration_deadline)
    ELSE GetTime(b.created_at) - GetTime(a.created_at)

Range(seq) == {seq[i] : i \in 1..Len(seq)}

MinOf(S) == CHOOSE m \in S : \A n \in S : m <= n

\* insertion that puts x before the elements it ties with
InsertUnstable(x, s, sortBy) ==
    LET later == {i \in 1..Len(s) : Compare(sortBy, s[i], x) >= 0}
        p == IF later = {} THEN Len(s) + 1 ELSE MinOf(later)
    IN  SubSeq(s, 1, p - 1) \o <<x>> \o SubSeq(s, p, Len(s))

\* x goes before the first element that compares greater, after all its ties
InsertSorted(x, s, sortBy) ==
    LET later == {i \in 1..Len(s) : Compare(sortBy, s[i], x) > 0}
        p == IF later = {} THEN Len(s) + 1 ELSE MinOf(later)
    IN  SubSeq(s, 1, p - 1) \o <<x>> \o SubSeq(s, p, Len(s))

\* Array.prototype.sort(compare): stable since ES2019
RECURSIVE ArraySort(_, _)
ArraySort(s, sortBy) ==
    IF s = <<>> THEN <<>>
    ELSE CHOOSE out \in
             { InsertSorted(s[Len(s)], front, sortBy) :
                   front \in {ArraySort(SubSeq(s, 1, Len(s) - 1), sortBy)} } : TRUE

\* the 'deadline' branch of the sort left out: only 'newest' reorders
SortStageNewestOnly(res, f) ==
    IF res.threw THEN res
    ELSE IF f.sortBy = "newest"
         THEN [res EXCEPT !.items = ArraySort(res.items, f.sortBy)]
         ELSE res

\* result.sort(...) sorts the working array in place
SortStage(res, f) ==
    IF res.threw THEN res
    ELSE IF f.sortBy = "deadline" \/ f.sortBy = "newest"
         THEN [res EXCEPT !.items = ArraySort(res.items, f.sortBy)]
         ELSE res

\* the whole useMemo callback; each { e(r) : r \in {x} } binds the working array
\* once, as the assignments to `result` do
Pipeline(hs, f) ==
    CHOOSE res \in
        { SortStage(r4, f) : r4 \in
        { SkillsStage(r3, f) : r3 \in
        { OnlineOnlyStage(r2, f) : r2 \in
        { SourceStage(r1, f) : r1 \in
        { SearchStage(r0, f) : r0 \in {SpreadCopy(hs)} } } } } } : TRUE

\* A render with hackathons = hs and filters = f: the memo is recomputed, and
\* an in-place sort of an aliased array is a write to the state array itself.
Render(hs, f) ==
    \E res \in {Pipeline(hs, f)} :
        /\ filteredHackathons' = IF res.threw THEN <<>> ELSE res.items
        /\ resultIsNew' = ~res.alias
        /\ renderError' = res.threw
        /\ hackathons' = IF res.alias THEN res.items ELSE hs

----------------------------------------------------------------------------
(* Names shared by the pages *)

NoToast == "none"
Users == {"u1"}

\* the route parameter the detail page is opened with
RouteId == "h1"

\* the wall clock when the page is opened
Now == Ts(1, 0)

----------------------------------------------------------------------------
(* HackathonCard's save button.  A card's props are [id, isSaved, onSave,   *)
(* onUnsave, showSaveButton]: hackathon.id, the isSaved prop, whether each  *)
(* optional handler is provided, and whether the button is rendered.  A     *)
(* handler invocation is [handler, id].                                     *)

CardIds == {"h1", "h2"}

CardPropsOf(id) ==
    [id : {id}, isSaved : BOOLEAN, onSave : BOOLEAN, onUnsave : BOOLEAN,
     showSaveButton : BOOLEAN]

Invocation(handler, id) == [handler |-> handler, id |-> id]

\* the else and the !isSaved test left out: two ifs in a row
HandleSaveClickTwoIfs(props) ==
    (IF props.isSaved /\ props.onUnsave THEN {Invocation("onUnsave", props.id)} ELSE {})
    \cup (IF props.onSave THEN {Invocation("onSave", props.id)} ELSE {})

\* handleSaveClick: the invocations one click makes
HandleSaveClick(props) ==
    IF props.isSaved /\ props.onUnsave THEN {Invocation("onUnsave", props.id)}
    ELSE IF ~props.isSaved /\ props.onSave THEN {Invocation("onSave", props.id)}
    ELSE {}

\* the props HackathonsPage gives the card of the record h
ListingCardProps(h) ==
    [id |-> h.id, isSaved |-> h.id \in savedIds, onSave |-> TRUE, onUnsave |-> TRUE,
     showSaveButton |-> TRUE]

\* no card is rendered on its own
NoCards ==
    /\ cards = <<>>
    /\ clicked = 0
    /\ calls = {}

----------------------------------------------------------------------------
(* Countdown.  The hook module hooks/useCountdown (useCountdown,            *)
(* getCountdownStatus) is read from section 4.1 of the specification; the   *)
(* card and the detail page that consume it are read from their source.     *)
(* A consumer is one mounted component instance that calls useCountdown.    *)

MsPerSecond == 1000
MsPerMinute == 60000
MsPerHour == 3600000
MsPerDay == 86400000

\* computeTimeRemaining(deadline, now): the raw total, and the decomposition
\* of a positive total
ComputeTimeRemaining(deadline, now) ==
    LET total == deadline - now
    IN  IF total <= 0
        THEN [total |-> total, days |-> 0, hours |-> 0, minutes |-> 0, seconds |-> 0]
        ELSE [total |-> total,
              days |-> total \div MsPerDay,
              hours |-> (total % MsPerDay) \div MsPerHour,
              minutes |-> (total % MsPerHour) \div MsPerMinute,
              seconds |-> (total % MsPerMinute) \div MsPerSecond]

\* the urgent threshold applied inclusively: a total of exactly 24h is urgent
GetCountdownStatusInclusive(tl) ==
    IF tl.total <= 0 THEN "expired"
    ELSE IF tl.total <= 24 * MsPerHour THEN "urgent"
    ELSE IF tl.total <= 72 * MsPerHour THEN "soon"
    ELSE "normal"

\* getCountdownStatus(timeLeft) (classifyStatus)
GetCountdownStatus(tl) ==
    IF tl.total <= 0 THEN "expired"
    ELSE IF tl.total < 24 * MsPerHour THEN "urgent"
    ELSE IF tl.total < 72 * MsPerHour THEN "soon"
    ELSE "normal"

\* the class the card adds to its countdown badge for a status
CardBadgeClass(status) ==
    IF status = "urgent" THEN "countdown-urgent"
    ELSE IF status = "soon" THEN "countdown-soon"
    ELSE IF status = "normal" THEN "countdown-normal"
    ELSE "none"

\* hackathon?.registration_deadline || new Date().toISOString(), as a time in ms
DetailDeadline(hk, now) ==
    IF hk = Null THEN now ELSE GetTime(Get(hk).registration_deadline)

\* the counters shown while the total is not negative: a total of 0 shows them
CountdownPanelFromZero(tl) ==
    IF tl.total >= 0 THEN "counters" ELSE "Registration Closed"

\* {timeLeft.total > 0 ? ( the four counters ) : ( "Registration Closed" )}
CountdownPanel(tl) ==
    IF tl.total > 0 THEN "counters" ELSE "Registration Closed"

\* <Button asChild disabled={timeLeft.total <= 0}>
RegisterDisabled(tl) == tl.total <= 0

Row(id) == CHOOSE h \in HackathonRows : h.id = id

Card(id) == [view |-> "card", id |-> id]
DetailView == [view |-> "detail", id |-> "h4"]

\* the component instances that call useCountdown: two cards of the listing
\* page, and the detail page
Consumers == {Card("h3"), Card("h1"), DetailView}

\* the records the listing page shows as cards
CardList == <<Row("h3"), Row("h1")>>

\* the instants at which the wall clock is sampled
ClockInstants ==
    {0, 1, MsPerHour + MsPerMinute + MsPerSecond, 5 * MsPerHour, 24 * MsPerHour,
     24 * MsPerHour + 1, 72 * MsPerHour, 72 * MsPerHour + 1, 96 * MsPerHour,
     96 * MsPerHour + MsPerSecond}

\* the deadline a consumer hands to useCountdown
DeadlineOf(c) ==
    IF c.view = "card" THEN GetTime(Row(c.id).registration_deadline)
    ELSE DetailDeadline(hackathon, clock)

\* no countdown consumer is on display
NoCountdown ==
    /\ displayed = {}
    /\ timers = {}
    /\ timeLeft = [c \in Consumers |-> Null]
    /\ computed = {}

\* the component is removed but its interval is never cleared
UnmountLeavesTimer(c) ==
    /\ c \in displayed
    /\ displayed' = displayed \ {c}
    /\ timeLeft' = [timeLeft EXCEPT ![c] = Null]
    /\ computed' = {}
    /\ UNCHANGED <<cardVars, timers, clock, routeId, pipelineVars, fetched, pageVars>>

\* a consumer is put on display: useCountdown computes its first value and
\* schedules its repeating 1-second tick
Mount(c) ==
    /\ c \notin displayed
    /\ IF c.view = "card"
       THEN page = "listing" /\ \E i \in 1..Len(filteredHackathons) :
                                    filteredHackathons[i].id = c.id
       ELSE page = "detail"
    /\ displayed' = displayed \cup {c}
    /\ timers' = timers \cup {c}
    /\ timeLeft' = [timeLeft EXCEPT ![c] = Some(ComputeTimeRemaining(DeadlineOf(c), clock))]
    /\ computed' = {c}
    /\ UNCHANGED <<cardVars, clock, routeId, pipelineVars, fetched, pageVars>>

\* a scheduled tick fires: the consumer recomputes from the then-current clock
Tick(c) ==
    /\ c \in timers
    /\ timeLeft' = [timeLeft EXCEPT ![c] = Some(ComputeTimeRemaining(DeadlineOf(c), clock))]
    /\ computed' = {c}
    /\ UNCHANGED <<cardVars, displayed, timers, clock, routeId, pipelineVars, fetched, pageVars>>

\* a consumer is removed from display: its tick is cancelled
Unmount(c) ==
    /\ c \in displayed
    /\ displayed' = displayed \ {c}
    /\ timers' = timers \ {c}
    /\ timeLeft' = [timeLeft EXCEPT ![c] = Null]
    /\ computed' = {}
    /\ UNCHANGED <<cardVars, clock, routeId, pipelineVars, fetched, pageVars>>

\* time passes until the instant t
ClockAdvances(t) ==
    /\ t > clock
    /\ clock' = t
    /\ computed' = {}
    /\ UNCHANGED <<cardVars, displayed, timers, timeLeft, routeId, pipelineVars, fetched, pageVars>>

AdvanceClock == \E t \in ClockInstants : ClockAdvances(t)

\* the listing page showing CardList, or the detail page of h4 after its fetch
\* settled (with the record, or without it)
InitCountdown ==
    /\ clock = 0
    /\ page \in {"listing", "detail"}
    /\ hackathons = (IF page = "listing" THEN CardList ELSE <<>>)
    /\ fetched = hackathons
    /\ filters = DefaultFilters
    /\ filteredHackathons = hackathons
    /\ resultIsNew = TRUE
    /\ renderError = FALSE
    /\ routeId = DetailView.id
    /\ hackathon \in (IF page = "detail" THEN {Null, Some(Row(DetailView.id))} ELSE {Null})
    /\ user = NoValue
    /\ loading = FALSE
    /\ savedIds = {}
    /\ isSaved = FALSE
    /\ dbSaved = {}
    /\ inflight = EmptyBag
    /\ toast = NoToast
    /\ NoCountdown
    /\ NoCards

NextCountdown ==
    \/ AdvanceClock
    \/ \E c \in Consumers : Mount(c)
    \/ \E c \in Consumers : Tick(c)
    \/ \E c \in Consumers : Unmount(c)

SpecCountdown == InitCountdown /\ [][NextCountdown]_vars

----------------------------------------------------------------------------
(* Two cards rendered by a parent that may leave either handler out *)

\* a click on the save button of the i-th card
ClickSaveButton(i) ==
    /\ cards[i].showSaveButton
    /\ clicked' = i
    /\ calls' = HandleSaveClick(cards[i])
    /\ UNCHANGED <<cards, countdownVars, clock, routeId, pipelineVars, fetched, pageVars>>

\* the parent renders the i-th card again with the other value of isSaved
ParentRerenders(i) ==
    /\ cards' = [cards EXCEPT ![i].isSaved = ~@]
    /\ clicked' = 0
    /\ calls' = {}
    /\ UNCHANGED <<countdownVars, clock, routeId, pipelineVars, fetched, pageVars>>

\* two cards just rendered by a parent that holds no saved id yet
InitCard ==
    /\ cards \in {<<a, b>> : a \in {c \in CardPropsOf("h1") : ~c.isSaved},
                             b \in {c \in CardPropsOf("h2") : ~c.isSaved}}
    /\ clicked = 0
    /\ calls = {}
    /\ clock = GetTime(Now)
    /\ routeId = RouteId
    /\ NoCountdown
    /\ page = "listing"
    /\ user = NoValue
    /\ dbSaved = {}
    /\ hackathons = <<>>
    /\ fetched = <<>>
    /\ filters = DefaultFilters
    /\ filteredHackathons = <<>>
    /\ resultIsNew = TRUE
    /\ renderError = FALSE
    /\ loading = FALSE
    /\ savedIds = {}
    /\ isSaved = FALSE
    /\ hackathon = Null
    /\ inflight = EmptyBag
    /\ toast = NoToast

NextCard ==
    \/ \E i \in 1..2 : ClickSaveButton(i)
    \/ \E i \in 1..2 : ParentRerenders(i)

SpecCard == InitCard /\ [][NextCard]_vars

----------------------------------------------------------------------------
(* Pages *)

\* setFilters(f): the spec is replaced whole and the page renders again
SetFilters(f) ==
    /\ f # filters
    /\ filters' = f
    /\ Render(hackathons, f)
    /\ UNCHANGED <<cardVars, fetched, pageVars, clock, routeId, countdownVars>>

\* the specs one interaction with a filter control can hand to onFiltersChange
OneControlChanged(cur) ==
    {[cur EXCEPT !.search = s] : s \in SearchTexts}
    \cup {[cur EXCEPT !.source = s] : s \in SourceChoices}
    \cup {[cur EXCEPT !.skills = s] : s \in SkillChoices}
    \cup {[cur EXCEPT !.sortBy = s] : s \in SortKeys}
    \cup {[cur EXCEPT !.onlineOnly = ~cur.onlineOnly]}

\* <HackathonFiltersComponent filters={filters} onFiltersChange={setFilters} />
ChangeFilters == \E f \in OneControlChanged(filters) : SetFilters(f)

\* The listing page after its first render over a record list drawn from
\* RecordLists, with the default filter spec of useState.
InitPipeline ==
    /\ fetched \in RecordLists
    /\ filters = DefaultFilters
    /\ \E res \in {Pipeline(fetched, DefaultFilters)} :
           /\ filteredHackathons = (IF res.threw THEN <<>> ELSE res.items)
           /\ resultIsNew = ~res.alias
           /\ renderError = res.threw
           /\ hackathons = (IF res.alias THEN res.items ELSE fetched)
    /\ page = "listing"
    /\ user = NoValue
    /\ loading = FALSE
    /\ savedIds = {}
    /\ isSaved = FALSE
    /\ hackathon = Null
    /\ dbSaved = {}
    /\ inflight = EmptyBag
    /\ toast = NoToast
    /\ clock = GetTime(Now)
    /\ routeId = RouteId
    /\ NoCountdown
    /\ NoCards

Next == ChangeFilters

Spec == InitPipeline /\ [][Next]_vars

----------------------------------------------------------------------------
(* Requests.  An async handler is split at its await: the step that issues  *)
(* the request, the backend's answer, and the handler's continuation.       *)
(* A request is [op, user, id, at, phase, rows, ids]: the handler awaiting   *)
(* it, the user.id, hackathon id and time written into the query, "sent" /  *)
(* "ok" / "error", and the data of the answer.                              *)

\* most requests awaited at once
MaxInflight == 2

\* a query that compares no timestamp carries the time 0
Request(op, u, id) ==
    [op |-> op, user |-> u, id |-> id, at |-> 0, phase |-> "sent", rows |-> <<>>,
     ids |-> {}]

Pending == BagToSet(inflight)

Issue(bag, reqs) == bag (+) reqs
Settle(bag, r) == bag (-) SetToBag({r})

\* the .gte('registration_deadline', now) filter left out of the query
QueryActiveAnyDeadline(now) ==
    LET eligible == {h \in HackathonRows : h.is_active}
        n == Cardinality(eligible)
    IN  {s \in [1..n -> eligible] :
            /\ \A i, j \in 1..n : i # j => s[i] # s[j]
            /\ \A i, j \in 1..n : i < j =>
                  GetTime(s[i].registration_deadline) <= GetTime(s[j].registration_deadline)}

\* .eq('is_active', true).gte('registration_deadline', now).order('registration_deadline')
QueryActive(now) ==
    LET eligible == {h \in HackathonRows :
                        h.is_active /\ GetTime(h.registration_deadline) >= now}
        n == Cardinality(eligible)
    IN  {s \in [1..n -> eligible] :
            /\ \A i, j \in 1..n : i # j => s[i] # s[j]
            /\ \A i, j \in 1..n : i < j =>
                  GetTime(s[i].registration_deadline) <= GetTime(s[j].registration_deadline)}

\* the ids the listing page can show, so the rows a user can have saved
ShownIds == {h.id : h \in {h \in HackathonRows :
                h.is_active /\ GetTime(h.registration_deadline) >= GetTime(Now)}}

\* the answers the backend can give to a sent request, with the table afterwards
Answers(r, db) ==
    LET err == [req |-> [r EXCEPT !.phase = "error"], db |-> db]
        ok(rows, ids, db2) ==
            [req |-> [r EXCEPT !.phase = "ok", !.rows = rows, !.ids = ids], db |-> db2]
    IN  CASE r.op = "fetchHackathons" ->
                {err} \cup {ok(rows, {}, db) : rows \in QueryActive(r.at)}
          [] r.op = "fetchSavedHackathons" ->
                {err, ok(<<>>, {row[2] : row \in {x \in db : x[1] = r.user}}, db)}
          [] r.op \in {"handleSave", "toggleInsert"} ->
                {err, ok(<<>>, {}, db \cup {<<r.user, r.id>>})}
          [] r.op \in {"handleUnsave", "toggleDelete"} ->
                {err, ok(<<>>, {}, db \ {<<r.user, r.id>>})}
          [] r.op = "fetchHackathon" ->
                {err} \cup {ok(<<h>>, {}, db) : h \in {x \in HackathonRows : x.id = r.id}}
          [] r.op = "checkIfSaved" ->
                \* .single(): no row is an error with data null
                {err} \cup (IF <<r.user, r.id>> \in db THEN {ok(<<>>, {r.id}, db)} ELSE {})

\* the backend answers one sent request
BackendAnswers ==
    \E r \in Pending : \E a \in Answers(r, dbSaved) :
        /\ r.phase = "sent"
        /\ inflight' = Issue(Settle(inflight, r), SetToBag({a.req}))
        /\ dbSaved' = a.db
        /\ toast' = NoToast
        /\ UNCHANGED <<cardVars, countdownVars, clock, routeId, pipelineVars, fetched, page, user, loading, savedIds, isSaved, hackathon>>

----------------------------------------------------------------------------
(* HackathonsPage *)

\* useEffect(() => { fetchHackathons(); if (user) fetchSavedHackathons(); }, [user])
ListingEffect(u) ==
    SetToBag({[Request("fetchHackathons", NoValue, NoValue) EXCEPT !.at = clock]})
    (+) (IF u # NoValue THEN SetToBag({Request("fetchSavedHackathons", u, NoValue)})
         ELSE EmptyBag)

\* fetchHackathons after its await
FetchHackathonsDone ==
    \E r \in Pending :
        /\ page = "listing" /\ r.op = "fetchHackathons" /\ r.phase # "sent"
        /\ inflight' = Settle(inflight, r)
        /\ IF r.phase = "error"
           THEN UNCHANGED <<pipelineVars, fetched>>
           ELSE /\ fetched' = r.rows
                /\ Render(r.rows, filters)
                /\ UNCHANGED filters
        /\ loading' = FALSE
        /\ toast' = NoToast
        /\ UNCHANGED <<cardVars, page, user, savedIds, isSaved, hackathon, dbSaved, clock, routeId,
                       countdownVars>>

\* fetchSavedHackathons after its await
FetchSavedHackathonsDone ==
    \E r \in Pending :
        /\ page = "listing" /\ r.op = "fetchSavedHackathons" /\ r.phase # "sent"
        /\ inflight' = Settle(inflight, r)
        /\ savedIds' = IF r.phase = "ok" THEN r.ids ELSE savedIds
        /\ toast' = NoToast
        /\ UNCHANGED <<cardVars, countdownVars, clock, routeId, pipelineVars, fetched, page, user, loading, isSaved, hackathon, dbSaved>>

\* setSavedIds before the error is looked at
SavedIdsAfterSaveOptimistic(prev, r) == prev \cup {r.id}

\* handleSave after its await: setSavedIds((prev) => new Set([...prev, hackathonId]))
SavedIdsAfterSave(prev, r) == IF r.phase = "error" THEN prev ELSE prev \cup {r.id}

\* handleSave after its await: the toast of either branch
ToastAfterSave(r) == IF r.phase = "error" THEN "Error" ELSE "Saved!"

\* handleUnsave after its await
SavedIdsAfterUnsave(prev, r) == IF r.phase = "error" THEN prev ELSE prev \ {r.id}

\* handleUnsave after its await: a toast on success only
ToastAfterUnsave(r) == IF r.phase = "error" THEN NoToast ELSE "Removed"

\* the if (!user) return of handleSave left out: the insert is always issued
HandleSaveNoGuard(id) ==
    /\ BagCardinality(inflight) < MaxInflight
    /\ inflight' = Issue(inflight, SetToBag({Request("handleSave", user, id)}))
    /\ toast' = NoToast

\* handleSave(hackathonId) up to its await
HandleSave(id) ==
    IF user = NoValue
    THEN /\ toast' = "Sign in required"
         /\ UNCHANGED inflight
    ELSE /\ BagCardinality(inflight) < MaxInflight
         /\ inflight' = Issue(inflight, SetToBag({Request("handleSave", user, id)}))
         /\ toast' = NoToast

\* handleUnsave(hackathonId) up to its await
HandleUnsave(id) ==
    IF user = NoValue
    THEN /\ toast' = NoToast
         /\ UNCHANGED inflight
    ELSE /\ BagCardinality(inflight) < MaxInflight
         /\ inflight' = Issue(inflight, SetToBag({Request("handleUnsave", user, id)}))
         /\ toast' = NoToast

\* a click on the save button of a displayed card (HackathonCard.handleSaveClick)
CardSaveClick ==
    \E h \in Range(filteredHackathons) :
        /\ page = "listing" /\ ~loading /\ ~renderError
        /\ \E call \in HandleSaveClick(ListingCardProps(h)) :
              IF call.handler = "onUnsave" THEN HandleUnsave(call.id)
              ELSE HandleSave(call.id)
        /\ UNCHANGED <<cardVars, countdownVars, clock, routeId, pipelineVars, fetched, page, user, loading, savedIds, isSaved,
                       hackathon, dbSaved>>

HandleSaveDone ==
    \E r \in Pending :
        /\ page = "listing" /\ r.op = "handleSave" /\ r.phase # "sent"
        /\ inflight' = Settle(inflight, r)
        /\ savedIds' = SavedIdsAfterSave(savedIds, r)
        /\ toast' = ToastAfterSave(r)
        /\ UNCHANGED <<cardVars, countdownVars, clock, routeId, pipelineVars, fetched, page, user, loading, isSaved, hackathon, dbSaved>>

HandleUnsaveDone ==
    \E r \in Pending :
        /\ page = "listing" /\ r.op = "handleUnsave" /\ r.phase # "sent"
        /\ inflight' = Settle(inflight, r)
        /\ savedIds' = SavedIdsAfterUnsave(savedIds, r)
        /\ toast' = ToastAfterUnsave(r)
        /\ UNCHANGED <<cardVars, countdownVars, clock, routeId, pipelineVars, fetched, page, user, loading, isSaved, hackathon, dbSaved>>

----------------------------------------------------------------------------
(* HackathonDetailPage *)

\* useEffect(() => { if (id) { fetchHackathon(); if (user) checkIfSaved(); } }, [id, user])
DetailRequests(u, id) ==
    SetToBag({Request("fetchHackathon", NoValue, id)})
    (+) (IF u # NoValue THEN SetToBag({Request("checkIfSaved", u, id)}) ELSE EmptyBag)

DetailEffect(u) == DetailRequests(u, routeId)

\* setLoading(false) moved into the success branch of fetchHackathon
FetchHackathonDoneLoadingOnSuccess ==
    \E r \in Pending :
        /\ page = "detail" /\ r.op = "fetchHackathon" /\ r.phase # "sent"
        /\ inflight' = Settle(inflight, r)
        /\ hackathon' = IF r.phase = "error" THEN hackathon ELSE Some(r.rows[1])
        /\ loading' = IF r.phase = "error" THEN loading ELSE FALSE
        /\ toast' = NoToast
        /\ UNCHANGED <<cardVars, countdownVars, clock, routeId, pipelineVars, fetched, page, user, savedIds, isSaved, dbSaved>>

\* fetchHackathon after its await
FetchHackathonDone ==
    \E r \in Pending :
        /\ page = "detail" /\ r.op = "fetchHackathon" /\ r.phase # "sent"
        /\ inflight' = Settle(inflight, r)
        /\ hackathon' = IF r.phase = "error" THEN hackathon ELSE Some(r.rows[1])
        /\ loading' = FALSE
        /\ toast' = NoToast
        /\ UNCHANGED <<cardVars, countdownVars, clock, routeId, pipelineVars, fetched, page, user, savedIds, isSaved, dbSaved>>

\* checkIfSaved after its await: setIsSaved(!!data)
CheckIfSavedDone ==
    \E r \in Pending :
        /\ page = "detail" /\ r.op = "checkIfSaved" /\ r.phase # "sent"
        /\ inflight' = Settle(inflight, r)
        /\ isSaved' = (r.phase = "ok" /\ r.ids # {})
        /\ toast' = NoToast
        /\ UNCHANGED <<cardVars, countdownVars, clock, routeId, pipelineVars, fetched, page, user, loading, savedIds, hackathon, dbSaved>>

\* handleSaveToggle after its await: setIsSaved(...) only when there is no error
IsSavedAfterToggle(prev, r) ==
    IF r.phase = "error" THEN prev ELSE (r.op = "toggleInsert")

\* handleSaveToggle after its await: a toast on success only
ToastAfterToggle(r) ==
    IF r.phase = "error" THEN NoToast
    ELSE IF r.op = "toggleInsert" THEN "Saved!" ELSE "Removed"

\* handleSaveToggle up to its await; the button is rendered once the record is loaded
SaveToggleClick ==
    /\ page = "detail" /\ ~loading /\ hackathon # Null
    /\ IF user = NoValue
       THEN /\ toast' = "Sign in required"
            /\ UNCHANGED inflight
       ELSE /\ BagCardinality(inflight) < MaxInflight
            /\ inflight' = Issue(inflight, SetToBag({Request(
                   IF isSaved THEN "toggleDelete" ELSE "toggleInsert", user, Get(hackathon).id)}))
            /\ toast' = NoToast
    /\ UNCHANGED <<cardVars, countdownVars, clock, routeId, pipelineVars, fetched, page, user, loading, savedIds, isSaved,
                   hackathon, dbSaved>>

SaveToggleDone ==
    \E r \in Pending :
        /\ page = "detail" /\ r.op \in {"toggleInsert", "toggleDelete"} /\ r.phase # "sent"
        /\ inflight' = Settle(inflight, r)
        /\ isSaved' = IsSavedAfterToggle(isSaved, r)
        /\ toast' = ToastAfterToggle(r)
        /\ UNCHANGED <<cardVars, countdownVars, clock, routeId, pipelineVars, fetched, page, user, loading, savedIds, hackathon, dbSaved>>

----------------------------------------------------------------------------
(* Both pages *)

PageEffect(pg, u) == IF pg = "listing" THEN ListingEffect(u) ELSE DetailEffect(u)

\* useAuth() hands the page another user (sign-in or sign-out): the page's
\* effect runs again; no state of the page is reset
AuthChange ==
    \E u \in Users \cup {NoValue} :
        /\ u # user
        /\ BagCardinality(inflight (+) PageEffect(page, u)) <= MaxInflight
        /\ user' = u
        /\ inflight' = Issue(inflight, PageEffect(page, u))
        /\ toast' = NoToast
        /\ UNCHANGED <<cardVars, countdownVars, clock, routeId, pipelineVars, fetched, page, loading, savedIds, isSaved, hackathon, dbSaved>>

\* a page just mounted, its effect run once, over any content of saved_hackathons
InitPages ==
    /\ clock = GetTime(Now)
    /\ routeId = RouteId
    /\ NoCountdown
    /\ NoCards
    /\ page \in {"listing", "detail"}
    /\ user \in Users \cup {NoValue}
    /\ dbSaved \in SUBSET (Users \X ShownIds)
    /\ hackathons = <<>>
    /\ fetched = <<>>
    /\ filters = DefaultFilters
    /\ filteredHackathons = <<>>
    /\ resultIsNew = TRUE
    /\ renderError = FALSE
    /\ loading = TRUE
    /\ savedIds = {}
    /\ isSaved = FALSE
    /\ hackathon = Null
    /\ inflight = PageEffect(page, user)
    /\ toast = NoToast

NextPages ==
    \/ BackendAnswers
    \/ AuthChange
    \/ FetchHackathonsDone
    \/ FetchSavedHackathonsDone
    \/ CardSaveClick
    \/ HandleSaveDone
    \/ HandleUnsaveDone
    \/ FetchHackathonDone
    \/ CheckIfSavedDone
    \/ SaveToggleClick
    \/ SaveToggleDone

SpecPages == InitPages /\ [][NextPages]_vars

\* which of its three returns HackathonDetailPage renders
DetailPageView ==
    IF loading THEN "loading"
    ELSE IF hackathon = Null THEN "Hackathon not found"
    ELSE "record"

\* The pages with a backend that answers every query it is sent and an event
\* loop that runs every continuation whose promise has settled.
SpecPagesFair ==
    /\ SpecPages
    /\ WF_vars(BackendAnswers)
    /\ WF_vars(FetchHackathonsDone)
    /\ WF_vars(FetchHackathonDone)

\* the answers of a backend that is reached by every request: a query only
\* fails where the data makes it fail (.single() over no row)
ReliableAnswers(r, db) ==
    {a \in Answers(r, db) :
        \/ a.req.phase = "ok"
        \/ r.op = "checkIfSaved" /\ <<r.user, r.id>> \notin db}

\* the backend answers one sent request, and no request is lost
BackendAnswersReliably ==
    \E r \in Pending : \E a \in ReliableAnswers(r, dbSaved) :
        /\ r.phase = "sent"
        /\ inflight' = Issue(Settle(inflight, r), SetToBag({a.req}))
        /\ dbSaved' = a.db
        /\ toast' = NoToast
        /\ UNCHANGED <<cardVars, countdownVars, clock, routeId, pipelineVars, fetched, page, user,
                       loading, savedIds, isSaved, hackathon>>

\* the pages over a backend without network failures: answers and
\* continuations still come in any order
NextReliable ==
    \/ BackendAnswersReliably
    \/ AuthChange
    \/ FetchHackathonsDone
    \/ FetchSavedHackathonsDone
    \/ CardSaveClick
    \/ HandleSaveDone
    \/ HandleUnsaveDone
    \/ FetchHackathonDone
    \/ CheckIfSavedDone
    \/ SaveToggleClick
    \/ SaveToggleDone

SpecReliable == InitPages /\ [][NextReliable]_vars

\* the route parameters the detail page is navigated between
RouteIds == {"h1", "h2"}

\* the router hands the mounted detail page another :id; its effect runs again
\* and no state of the page is reset
Navigate ==
    \E id \in RouteIds :
        /\ page = "detail"
        /\ id # routeId
        /\ BagCardinality(inflight (+) DetailRequests(user, id)) <= MaxInflight
        /\ routeId' = id
        /\ inflight' = Issue(inflight, DetailRequests(user, id))
        /\ toast' = NoToast
        /\ UNCHANGED <<cardVars, countdownVars, clock, pipelineVars, fetched, page, user, loading,
                       savedIds, isSaved, hackathon, dbSaved>>

\* the detail page just mounted on one of the routes
InitRoute ==
    /\ clock = GetTime(Now)
    /\ routeId \in RouteIds
    /\ NoCountdown
    /\ NoCards
    /\ page = "detail"
    /\ user \in Users \cup {NoValue}
    /\ dbSaved \in SUBSET (Users \X RouteIds)
    /\ hackathons = <<>>
    /\ fetched = <<>>
    /\ filters = DefaultFilters
    /\ filteredHackathons = <<>>
    /\ resultIsNew = TRUE
    /\ renderError = FALSE
    /\ loading = TRUE
    /\ savedIds = {}
    /\ isSaved = FALSE
    /\ hackathon = Null
    /\ inflight = DetailEffect(user)
    /\ toast = NoToast

NextRoute ==
    \/ Navigate
    \/ AuthChange
    \/ BackendAnswersReliably
    \/ FetchHackathonDone
    \/ CheckIfSavedDone
    \/ SaveToggleClick
    \/ SaveToggleDone

SpecRoute == InitRoute /\ [][NextRoute]_vars

\* the instants after time 0 at which the wall clock is sampled while the
\* listing page fetches: the two deadlines of the active rows, and just after
FetchInstants == {5 * MsPerHour, 24 * MsPerHour, 24 * MsPerHour + 1}

\* The listing page opened at time 0 over an empty saved_hackathons table; time
\* passes while its fetches are issued (on mount and on every change of user)
\* and answered.
InitFetch ==
    /\ clock = 0
    /\ routeId = RouteId
    /\ NoCountdown
    /\ NoCards
    /\ page = "listing"
    /\ user \in Users \cup {NoValue}
    /\ dbSaved = {}
    /\ hackathons = <<>>
    /\ fetched = <<>>
    /\ filters = DefaultFilters
    /\ filteredHackathons = <<>>
    /\ resultIsNew = TRUE
    /\ renderError = FALSE
    /\ loading = TRUE
    /\ savedIds = {}
    /\ isSaved = FALSE
    /\ hackathon = Null
    /\ inflight = ListingEffect(user)
    /\ toast = NoToast

NextFetch ==
    \/ \E t \in FetchInstants : ClockAdvances(t)
    \/ AuthChange
    \/ BackendAnswers
    \/ FetchHackathonsDone
    \/ FetchSavedHackathonsDone

SpecFetch == InitFetch /\ [][NextFetch]_vars

----------------------------------------------------------------------------
(* Properties of the filter/sort pipeline *)

\* the records of hs that pass every active filter, in the order of hs
Filtered(hs, f) ==
    CHOOSE out \in
        { SkillsStage(r3, f).items : r3 \in
        { OnlineOnlyStage(r2, f) : r2 \in
        { SourceStage(r1, f) : r1 \in
        { SearchStage(r0, f) : r0 \in {SpreadCopy(hs)} } } } } : TRUE

\* out holds exactly the elements of inp that satisfy Keep, in the order of inp
KeepsExactly(out, inp, Keep(_)) ==
    /\ \A i \in 1..Len(inp) : (inp[i] \in Range(out)) <=> Keep(inp[i])
    /\ Len(out) = Cardinality({i \in 1..Len(inp) : Keep(inp[i])})
    /\ \A i, j \in 1..Len(out) : i < j =>
          \E k, l \in 1..Len(inp) : k < l /\ inp[k] = out[i] /\ inp[l] = out[j]

\* t occurs in s when letter case is ignored
OccursIgnoringCase(s, t) ==
    \E from \in 1..(Len(s) + 1) :
        /\ from + Len(t) - 1 <= Len(s)
        /\ \A k \in 1..Len(t) : LowerChar(s[from + k - 1]) = LowerChar(t[k])

HasAnyRequired(h, required) ==
    /\ h.skills # Null
    /\ Range(Get(h.skills)) \cap Range(required) # {}

SearchHit(h, text) ==
    \/ OccursIgnoringCase(h.title, text)
    \/ h.description # Null /\ OccursIgnoringCase(Get(h.description), text)
    \/ h.skills # Null /\ \E tag \in Range(Get(h.skills)) : OccursIgnoringCase(tag, text)

\* C1: the skills stage keeps a record iff its skills hold at least one of the
\* required skills (exact tag equality); a record without skills is dropped; an
\* empty required list keeps every record; and every record shown passed the stage.
C1_SkillsOrSemantics ==
    \A out \in {SkillsStage(SpreadCopy(hackathons), filters).items} :
        /\ Len(filters.skills) = 0 => out = hackathons
        /\ Len(filters.skills) > 0 =>
              KeepsExactly(out, hackathons, LAMBDA h : HasAnyRequired(h, filters.skills))
        /\ Len(filters.skills) > 0 =>
              \A h \in Range(filteredHackathons) : HasAnyRequired(h, filters.skills)

\* two skills are required; a record holding only one of them is shown and a
\* record without skills is not
C1_Witness ==
    /\ Len(filters.skills) = 2
    /\ \E h \in Range(filteredHackathons) :
          Cardinality(Range(Get(h.skills)) \cap Range(filters.skills)) = 1
    /\ \E h \in Range(hackathons) : h.skills = Null /\ h \notin Range(filteredHackathons)

\* C2: with a non-empty search text a record is kept by the search stage iff the
\* lower-cased text occurs in its lower-cased title, description or one of its
\* skill tags; with an empty text every record is kept.
C2_SearchStage ==
    \A out \in {SearchStage(SpreadCopy(hackathons), filters).items} :
        /\ filters.search = <<>> => out = hackathons
        /\ filters.search # <<>> =>
              KeepsExactly(out, hackathons, LAMBDA h : SearchHit(h, filters.search))
        /\ filters.search # <<>> =>
              \A h \in Range(filteredHackathons) : SearchHit(h, filters.search)

\* an upper-case search text finds a record by a skill tag alone, and drops another
C2_Witness ==
    /\ filters.search = <<"A", "I">>
    /\ \E h \in Range(filteredHackathons) :
          /\ ~OccursIgnoringCase(h.title, filters.search)
          /\ h.description # Null /\ ~OccursIgnoringCase(Get(h.description), filters.search)
    /\ Len(filteredHackathons) < Len(hackathons)

SortKeyOf(h, sortBy) ==
    IF sortBy = "deadline" THEN GetTime(h.registration_deadline) ELSE GetTime(h.created_at)

PositionIn(seq, x) == CHOOSE i \in 1..Len(seq) : seq[i] = x

\* C3: sort key deadline gives non-decreasing registration_deadline, newest gives
\* non-increasing created_at, records with equal keys keep their input order, and
\* any other key leaves the filtered records in input order.
C3_SortStage ==
    \A inp \in {Filtered(hackathons, filters)} :
    LET out == filteredHackathons
        by == filters.sortBy
    IN  /\ Len(out) = Len(inp) /\ Range(out) = Range(inp)
        /\ by = "deadline" =>
              \A i, j \in 1..Len(out) : i < j =>
                  GetTime(out[i].registration_deadline) <= GetTime(out[j].registration_deadline)
        /\ by = "newest" =>
              \A i, j \in 1..Len(out) : i < j =>
                  GetTime(out[i].created_at) >= GetTime(out[j].created_at)
        /\ by \in {"deadline", "newest"} =>
              \A i, j \in 1..Len(out) :
                  (i < j /\ SortKeyOf(out[i], by) = SortKeyOf(out[j], by))
                      => PositionIn(inp, out[i]) < PositionIn(inp, out[j])
        /\ by \notin {"deadline", "newest"} => out = inp

\* the deadline sort moved a record past two records with equal deadlines
C3_Witness ==
    /\ filters.sortBy = "deadline"
    /\ filteredHackathons # Filtered(hackathons, filters)
    /\ \E i, j \in 1..Len(filteredHackathons) :
          /\ i < j
          /\ filteredHackathons[i].registration_deadline
                = filteredHackathons[j].registration_deadline

\* C7: computing the filtered list leaves the `hackathons` array as the fetch
\* delivered it, and the result is another array.
C7_InputNotMutated ==
    /\ hackathons = fetched
    /\ resultIsNew

\* no filter narrowed the list and the sort reordered it
C7_Witness ==
    /\ Len(filteredHackathons) = Len(hackathons)
    /\ filteredHackathons # hackathons

NothingSelected(f) ==
    f.search = <<>> /\ f.source = NoValue /\ ~f.onlineOnly /\ Len(f.skills) = 0

\* C8: the pipeline never throws; a record without description and without skills
\* is kept by a search only through its title and never by a skills filter; with
\* nothing selected it is retained.
C8_NullOptionalFields ==
    /\ ~renderError
    /\ \A h \in Range(hackathons) :
          /\ (h.description = Null /\ h.skills = Null /\ filters.search # <<>>)
                => (h \in Range(SearchStage(SpreadCopy(hackathons), filters).items)
                       <=> OccursIgnoringCase(h.title, filters.search))
          /\ (h.skills = Null /\ Len(filters.skills) > 0)
                => h \notin Range(filteredHackathons)
          /\ ((h.description = Null \/ h.skills = Null) /\ NothingSelected(filters))
                => h \in Range(filteredHackathons)

\* a search ran past the title of a record that has neither description nor skills
C8_Witness ==
    /\ filters.search # <<>>
    /\ \E h \in Range(hackathons) :
          /\ h.description = Null /\ h.skills = Null
          /\ ~OccursIgnoringCase(h.title, filters.search)
          /\ h \notin Range(filteredHackathons)
    /\ ~renderError

StageNames == {"search", "source", "onlineOnly", "skills"}

ApplyStage(name, res, f) ==
    CASE name = "search" -> SearchStage(res, f)
      [] name = "source" -> SourceStage(res, f)
      [] name = "onlineOnly" -> OnlineOnlyStage(res, f)
      [] name = "skills" -> SkillsStage(res, f)

\* C9: the four filter stages applied in any order before the sort give the list
\* the page computes with the order search, source, online-only, skills.
C9_StagesCommute ==
    \A s1 \in StageNames :
    \A r1 \in {ApplyStage(s1, SpreadCopy(hackathons), filters)} :
    \A s2 \in StageNames \ {s1} :
    \A r2 \in {ApplyStage(s2, r1, filters)} :
    \A s3 \in StageNames \ {s1, s2} :
    \A r3 \in {ApplyStage(s3, r2, filters)} :
    \A s4 \in StageNames \ {s1, s2, s3} :
    \A r4 \in {ApplyStage(s4, r3, filters)} :
        SortStage(r4, filters).items = filteredHackathons

\* the source stage and the skills stage each drop a record the other keeps
C9_Witness ==
    /\ filters.source # NoValue /\ Len(filters.skills) > 0
    /\ \E h \in Range(hackathons) :
          h.source = filters.source /\ ~HasAnyRequired(h, filters.skills)
    /\ \E h \in Range(hackathons) :
          h.source # filters.source /\ HasAnyRequired(h, filters.skills)

\* C10: running the pipeline on its own output with the same spec gives that output.
C10_Idempotent ==
    \A again \in {Pipeline(filteredHackathons, filters)} :
        ~again.threw /\ again.items = filteredHackathons

\* the newest-first sort moved a record, and two records of the output have
\* equal created_at
C10_Witness ==
    /\ filters.sortBy = "newest"
    /\ filteredHackathons # Filtered(hackathons, filters)
    /\ \E i, j \in 1..Len(filteredHackathons) :
          i < j /\ SortKeyOf(filteredHackathons[i], filters.sortBy)
                    = SortKeyOf(filteredHackathons[j], filters.sortBy)

\* C11: with the default filter spec and the sort key `deadline` the output has
\* the length of the input, holds exactly the input's records, and is in
\* non-decreasing order of registration_deadline.
C11_DefaultSpecSortsByDeadline ==
    (NothingSelected(filters) /\ filters.sortBy = "deadline") =>
        /\ ~renderError
        /\ Len(filteredHackathons) = Len(hackathons)
        /\ Range(filteredHackathons) = Range(hackathons)
        /\ \A h \in Range(hackathons) :
              Cardinality({i \in 1..Len(filteredHackathons) : filteredHackathons[i] = h})
                 = Cardinality({i \in 1..Len(hackathons) : hackathons[i] = h})
        /\ \A i, j \in 1..Len(filteredHackathons) : i < j =>
              GetTime(filteredHackathons[i].registration_deadline)
                 <= GetTime(filteredHackathons[j].registration_deadline)

\* the default spec over a list that arrived out of deadline order
C11_Witness ==
    /\ filters = DefaultFilters
    /\ Len(hackathons) >= 2
    /\ \E i, j \in 1..Len(hackathons) :
          i < j /\ GetTime(hackathons[i].registration_deadline)
                     > GetTime(hackathons[j].registration_deadline)
    /\ filteredHackathons # hackathons

\* C12: a selected source keeps exactly the records whose source equals it; with
\* no source selected the source stage keeps every record.
C12_SourceFilter ==
    \A out \in {SourceStage(SpreadCopy(hackathons), filters).items} :
        /\ filters.source # NoValue =>
              /\ KeepsExactly(out, hackathons, LAMBDA h : h.source = filters.source)
              /\ \A h \in Range(filteredHackathons) : h.source = filters.source
        /\ filters.source = NoValue => out = hackathons

\* a source is selected; one record of the list has it and another does not
C12_Witness ==
    /\ filters.source # NoValue
    /\ \E h \in Range(hackathons) : h.source = filters.source
    /\ \E h \in Range(hackathons) : h.source # filters.source
    /\ Len(SourceStage(SpreadCopy(hackathons), filters).items) < Len(hackathons)

\* C13: the online-only flag keeps exactly the records whose mode is `online` or
\* `hybrid` and drops the `offline` ones; with the flag off every record is kept.
C13_OnlineOnlyFilter ==
    \A out \in {OnlineOnlyStage(SpreadCopy(hackathons), filters).items} :
        /\ filters.onlineOnly =>
              /\ KeepsExactly(out, hackathons,
                              LAMBDA h : h.mode \in {"online", "hybrid"})
              /\ \A h \in Range(hackathons) : h.mode = "offline" => h \notin Range(out)
              /\ \A h \in Range(filteredHackathons) : h.mode \in {"online", "hybrid"}
        /\ ~filters.onlineOnly => out = hackathons

\* the flag is on over a list with a hybrid record, an online one and an offline one
C13_Witness ==
    /\ filters.onlineOnly
    /\ \E h \in Range(hackathons) : h.mode = "hybrid" /\ h \in Range(filteredHackathons)
    /\ \E h \in Range(hackathons) : h.mode = "online"
    /\ \E h \in Range(hackathons) : h.mode = "offline" /\ h \notin Range(filteredHackathons)

----------------------------------------------------------------------------
(* Properties of the save/unsave handlers and of error reporting *)

MutationOps == {"handleSave", "handleUnsave", "toggleInsert", "toggleDelete"}

\* this step is the continuation of the handler awaiting r
HandledNow(r) == CopiesIn(r, inflight') < CopiesIn(r, inflight)

\* this step issued r
IssuedNow(r) == CopiesIn(r, inflight') > CopiesIn(r, inflight)

\* C4: a failed save or unsave leaves the saved state shown as it was: neither the
\* step that issues the request nor the step that handles its failure changes
\* savedIds (listing page) or isSaved (detail page).
C4_FailureKeepsSavedState ==
    [][ \A r \in Pending \cup BagToSet(inflight') :
          ( /\ r.op \in MutationOps
            /\ \/ r.phase = "error" /\ HandledNow(r)
               \/ r.phase = "sent" /\ IssuedNow(r) )
          => (savedIds' = savedIds /\ isSaved' = isSaved) ]_vars

\* the listing page has handled a failed save and the record is still shown unsaved
C4_Witness ==
    /\ page = "listing"
    /\ toast = "Error"
    /\ \E h \in Range(filteredHackathons) : h.id \notin savedIds

ReportedOps == {"fetchHackathons", "fetchHackathon"} \cup MutationOps

\* C5: every failed listing fetch, detail fetch, save and unsave raises a toast,
\* and the handler of a failure issues no request.
C5_FailuresNotified ==
    [][ \A r \in Pending :
          (r.op \in ReportedOps /\ r.phase = "error" /\ HandledNow(r))
          => (toast' # NoToast /\ inflight' = Settle(inflight, r)) ]_vars

\* C6: on the listing page, while there is no signed-in user the saved-id set is empty.
C6_NoSessionNothingSaved ==
    (page = "listing" /\ user = NoValue) => savedIds = {}

----------------------------------------------------------------------------
(* Properties of the countdown *)

Statuses == {"expired", "urgent", "soon", "normal"}

\* C14: the status of a time remaining is a total function of its total: expired
\* at or below 0, urgent above 0 and below 24h, soon from 24h and below 72h,
\* normal from 72h; so 24h-1ms is urgent, 24h is soon, 72h is normal; the card
\* styles the three live statuses apart.
C14_StatusClassification ==
    \A c \in displayed :
    \A tl \in timeLeft[c] :
    \A st \in {GetCountdownStatus(tl)} :
        /\ st \in Statuses
        /\ st = "expired" <=> tl.total <= 0
        /\ st = "urgent" <=> (0 < tl.total /\ tl.total + 1 <= 24 * MsPerHour)
        /\ st = "soon" <=> (24 * MsPerHour <= tl.total /\ tl.total + 1 <= 72 * MsPerHour)
        /\ st = "normal" <=> 72 * MsPerHour <= tl.total
        /\ tl.total = DeadlineOf(c) - clock => tl = ComputeTimeRemaining(DeadlineOf(c), clock)
        /\ CardBadgeClass(st) = "none" <=> st = "expired"
        /\ \A other \in Statuses \ {st} :
              CardBadgeClass(other) = CardBadgeClass(st) => st = "expired"

\* a consumer has just computed a total of 24h minus one millisecond
C14_Witness ==
    \E c \in displayed :
        /\ c \in computed
        /\ Get(timeLeft[c]).total = 24 * MsPerHour - 1
        /\ GetCountdownStatus(Get(timeLeft[c])) = "urgent"

\* C15: a consumer that computes at or after its deadline holds days, hours,
\* minutes and seconds of 0 and is expired; the detail page then shows
\* "Registration Closed" in place of the counters and flags Register disabled.
C15_ExpiredAtDeadline ==
    \A c \in displayed :
    \A tl \in timeLeft[c] :
        /\ (c \in computed /\ DeadlineOf(c) <= clock) => tl.total <= 0
        /\ tl.total <= 0 =>
              /\ tl.days = 0 /\ tl.hours = 0 /\ tl.minutes = 0 /\ tl.seconds = 0
              /\ GetCountdownStatus(tl) = "expired"
              /\ c.view = "detail" =>
                    CountdownPanel(tl) = "Registration Closed" /\ RegisterDisabled(tl)
        /\ (tl.total > 0 /\ c.view = "detail") =>
              CountdownPanel(tl) = "counters" /\ ~RegisterDisabled(tl)

\* the detail page holds its record and has just ticked at or after the deadline
C15_Witness ==
    /\ hackathon # Null
    /\ DetailView \in displayed
    /\ DetailView \in computed
    /\ GetTime(Get(hackathon).registration_deadline) <= clock
    /\ Get(timeLeft[DetailView]).total <= 0

\* C16: the consumers whose tick is scheduled are exactly the ones on display;
\* a consumer that is not on display holds no countdown and none is computed
\* for it, whatever the order of mounts, ticks and unmounts.
C16_TickCancelledOnUnmount ==
    /\ timers = displayed
    /\ computed \subseteq displayed
    /\ \A c \in Consumers : c \notin displayed <=> timeLeft[c] = Null

\* one card is off display while the other, still on display, has just ticked
\* at a later time than the one the page was opened at
C16_Witness ==
    /\ clock > 0
    /\ Card("h1") \notin displayed
    /\ Card("h3") \in computed
    /\ Get(timeLeft[Card("h3")]).total = DeadlineOf(Card("h3")) - clock

----------------------------------------------------------------------------
(* Properties of the fetches *)

\* C17: the step that handles a successful listing fetch leaves in `hackathons`
\* only records with is_active true and a registration_deadline not earlier
\* than the time the fetch was issued at, in ascending order of that deadline;
\* the step that handles a failed one leaves `hackathons` as it was.
C17_ListingFetchResult ==
    [][ \A r \in Pending :
          (r.op = "fetchHackathons" /\ HandledNow(r)) =>
             IF r.phase = "ok"
             THEN /\ \A h \in Range(hackathons') :
                        h.is_active /\ GetTime(h.registration_deadline) >= r.at
                  /\ \A i, j \in 1..Len(hackathons') : i < j =>
                        GetTime(hackathons'[i].registration_deadline)
                           <= GetTime(hackathons'[j].registration_deadline)
                  /\ \A h \in HackathonRows :
                        (h.is_active /\ GetTime(h.registration_deadline) >= r.at)
                           => h \in Range(hackathons')
             ELSE hackathons' = hackathons ]_vars

\* a fetch issued after the deadline of an active record has delivered a list
\* of two records without it
C17_Witness ==
    /\ page = "listing" /\ ~loading
    /\ Len(hackathons) = 2
    /\ \A h \in Range(hackathons) : GetTime(h.registration_deadline) >= clock
    /\ \E h \in HackathonRows :
          h.is_active /\ GetTime(h.registration_deadline) < clock

----------------------------------------------------------------------------
(* Properties of the pages at rest *)

\* C18: on the detail page with a signed-in user, whenever no request is in
\* flight, isSaved tells whether saved_hackathons holds the row of the user and
\* the page's hackathon.
C18_IsSavedMatchesBackend ==
    (page = "detail" /\ user # NoValue /\ inflight = EmptyBag) =>
        (isSaved <=> <<user, routeId>> \in dbSaved)

\* C19: on the listing page with a signed-in user, whenever no request is in
\* flight, savedIds is the set of ids saved_hackathons holds for that user.
C19_SavedIdsMatchBackend ==
    (page = "listing" /\ user # NoValue /\ inflight = EmptyBag) =>
        savedIds = {row[2] : row \in {x \in dbSaved : x[1] = user}}

\* C20: on the detail page, once every issued request has settled, the record
\* on display is the one whose id is the current route id (no fetch fails here).
C20_DisplayedRecordIsRoute ==
    (page = "detail" /\ inflight = EmptyBag) =>
        (hackathon # Null /\ \A h \in hackathon : h.id = routeId)

----------------------------------------------------------------------------
(* Properties of the save controls *)

\* C21: for one user and one record at most one save/unsave mutation is awaited
\* at a time, on the listing page and on the detail page.
C21_OneMutationInFlight ==
    \A r \in Pending :
        r.op \in MutationOps =>
            /\ CopiesIn(r, inflight) = 1
            /\ \A q \in Pending \ {r} :
                  ~(q.op \in MutationOps /\ q.user = r.user /\ q.id = r.id)

\* C22: while no user is signed in, a click on a save control issues no
\* mutation and changes neither savedIds, isSaved nor the backend table; the
\* detail page's toggle and the listing page's save raise 'Sign in required',
\* the listing page's unsave raises nothing.
C22_NoUserNoMutation ==
    [][ (user = NoValue /\ user' = NoValue) =>
          /\ \A r \in BagToSet(inflight') :
                (r.op \in MutationOps /\ r.phase = "sent") => ~IssuedNow(r)
          /\ inflight' = inflight =>
                /\ savedIds' = savedIds /\ isSaved' = isSaved /\ dbSaved' = dbSaved
                /\ page = "detail" => toast' = "Sign in required"
                /\ page = "listing" =>
                      \/ /\ toast' = "Sign in required"
                         /\ \E h \in Range(filteredHackathons) : h.id \notin savedIds
                      \/ /\ toast' = NoToast
                         /\ \E h \in Range(filteredHackathons) : h.id \in savedIds ]_vars

\* after a sign-out that left a record shown as saved, a save attempt on another
\* card was turned down
C22_Witness ==
    /\ page = "listing"
    /\ user = NoValue
    /\ toast = "Sign in required"
    /\ savedIds # {}
    /\ inflight = EmptyBag

----------------------------------------------------------------------------
(* Properties of the loading flag *)

InitialFetchOps == {"fetchHackathons", "fetchHackathon"}

\* C23: loading starts true; the step that handles the page's record fetch,
\* failed or not, makes it false, and no other step changes it, so it never
\* becomes true again; the loading view eventually ends; a failed fetch on the
\* detail page with no record loaded before leads to 'Hackathon not found'.
C23_LoadingLifecycle ==
    /\ loading = TRUE
    /\ [][ /\ loading' => loading
           /\ \A r \in Pending :
                 (r.op \in InitialFetchOps /\ r.phase # "sent" /\ HandledNow(r))
                 => ~loading'
           /\ loading' # loading =>
                 \E r \in Pending :
                    r.op \in InitialFetchOps /\ r.phase # "sent" /\ HandledNow(r)
           /\ \A r \in Pending :
                 (r.op = "fetchHackathon" /\ r.phase = "error" /\ HandledNow(r)
                     /\ hackathon = Null)
                 => DetailPageView' = "Hackathon not found" ]_vars
    /\ <>(~loading)
    /\ [](page = "detail" => (DetailPageView = "loading" <=> loading))

\* the detail page's only fetch failed: the not-found view is up with nothing in flight
C23_Witness ==
    /\ page = "detail"
    /\ DetailPageView = "Hackathon not found"
    /\ inflight = EmptyBag

----------------------------------------------------------------------------
(* Properties of the card's save button *)

\* C24: one click on a card's save button invokes at most one handler, with the
\* card's own id: onUnsave when isSaved is true and onUnsave is provided, onSave
\* when isSaved is false and onSave is provided, and none otherwise.
C24_ClickInvokesMatchingHandler ==
    /\ clicked = 0 => calls = {}
    /\ clicked # 0 =>
          \A c \in {cards[clicked]} :
             /\ Cardinality(calls) <= 1
             /\ \A call \in calls :
                   /\ call.id = c.id
                   /\ call.handler = "onUnsave" <=> c.isSaved
                   /\ call.handler = "onSave" <=> ~c.isSaved
                   /\ \A i \in DOMAIN cards : i # clicked => call.id # cards[i].id
             /\ (c.isSaved /\ c.onUnsave) => calls = {Invocation("onUnsave", c.id)}
             /\ (~c.isSaved /\ c.onSave) => calls = {Invocation("onSave", c.id)}
             /\ (c.isSaved /\ ~c.onUnsave) => calls = {}
             /\ (~c.isSaved /\ ~c.onSave) => calls = {}

\* a saved card with both handlers provided was clicked next to an unsaved card
C24_Witness ==
    /\ clicked = 1
    /\ cards[1].isSaved /\ cards[1].onSave /\ cards[1].onUnsave
    /\ ~cards[2].isSaved
    /\ calls = {Invocation("onUnsave", cards[1].id)}

====
